---------------------------- MODULE Spec2Model ----------------------------
(***************************************************************************)
(* The image proxy of src/api/index.ts: the event-style entry point        *)
(* `handler` and the request/response-style default export, with the       *)
(* helpers they share (assembleURL, fetchData, compressData,               *)
(* patchContentSecurity, stripMixedContentCSP).                            *)
(*                                                                         *)
(* A JavaScript string is a sequence of pieces (TLA+ strings): a piece is  *)
(* one character where the code looks at characters (parseInt) and one     *)
(* lexical unit elsewhere; concatenation is \o.  A byte buffer is a        *)
(* sequence of numbers 0..255.  A value that may be undefined is a record  *)
(* [present, value].                                                       *)
(***************************************************************************)
EXTENDS Integers, Sequences, FiniteSets, TLC

VARIABLES
    pc,         \* "idle" | "fetching" | "compressing" | "done"
    entry,      \* "event" (handler) | "reqres" (default export) | "none"
    request,    \* [query |-> [url, rest], headers |-> name :> string]
    url,        \* the resolved URL (lines 54-76 / 184-208)
    opts,       \* [useWebp, grayscale, quality] (lines 78-90 / 210-223)
    fetched,    \* what fetchData returned
    gate,       \* what shouldCompress returned
    compressed, \* what compress returned
    calls,      \* the collaborators' invocations: [fetch, gate, compress]
    returned,   \* how the entry point's promise settled
    res,        \* the request/response-style response object
    log,        \* the console lines written
    thrown,     \* the errors raised during the invocation
    cspIn,      \* patchContentSecurity on its own: the arguments
    cspOut      \* patchContentSecurity on its own: the result

vars == <<pc, entry, request, url, opts, fetched, gate, compressed,
          calls, returned, res, log, thrown, cspIn, cspOut>>

(***************************************************************************)
(* Bounds of the model.                                                    *)
(***************************************************************************)
MaxDataLen == 3        \* longest fetched body, in bytes
MaxOutputLen == 1      \* longest compressor output, in bytes
MaxDirectives == 3     \* most directives of a Content-Security-Policy value

(***************************************************************************)
(* JavaScript values.                                                      *)
(***************************************************************************)
Undefined == [present |-> FALSE, value |-> <<>>]
Str(s) == [present |-> TRUE, value |-> s]

\* ToBoolean of a string-or-undefined: undefined and "" are falsy.
Truthy(v) == v.present /\ v.value # <<>>

\* obj[name] of a plain object whose values are strings.
Get(obj, name) == IF name \in DOMAIN obj THEN Str(obj[name]) ELSE Undefined

Range(s) == {s[i] : i \in 1..Len(s)}

\* The first index at which needle occurs in s, 0 when it does not.
IndexOf(s, needle) ==
    LET n == Len(needle)
        hits == {i \in 1..(Len(s) - n + 1) : SubSeq(s, i, i + n - 1) = needle}
    IN IF hits = {} THEN 0 ELSE CHOOSE i \in hits : \A j \in hits : i <= j

Contains(s, needle) == IndexOf(s, needle) # 0

\* String.prototype.replace with a string pattern: the first occurrence only.
ReplaceFirst(s, needle, by) ==
    LET i == IndexOf(s, needle)
    IN IF i = 0 THEN s
       ELSE SubSeq(s, 1, i - 1) \o by \o SubSeq(s, i + Len(needle), Len(s))

RECURSIVE Join(_, _)
\* Array.prototype.join
Join(parts, sep) ==
    IF Len(parts) = 0 THEN <<>>
    ELSE IF Len(parts) = 1 THEN parts[1]
    ELSE parts[1] \o sep \o Join(Tail(parts), sep)

\* Sequences over S of length at most n.
SeqsUpTo(S, n) == UNION {[1..k -> S] : k \in 0..n}

(***************************************************************************)
(* parseInt(s, 10): leading white space, an optional sign, then the        *)
(* longest prefix of decimal digits; NaN when there is none.               *)
(***************************************************************************)
Digits == <<"0", "1", "2", "3", "4", "5", "6", "7", "8", "9">>
IsDigit(c) == c \in Range(Digits)
DigitValue(c) == (CHOOSE i \in 1..10 : Digits[i] = c) - 1
NaN == [nan |-> TRUE, n |-> 0]
Num(n) == [nan |-> FALSE, n |-> n]

RECURSIVE TrimStart(_)
TrimStart(s) == IF s # <<>> /\ s[1] = " " THEN TrimStart(Tail(s)) ELSE s

RECURSIVE DigitPrefix(_)
DigitPrefix(s) ==
    IF s # <<>> /\ IsDigit(s[1]) THEN <<s[1]>> \o DigitPrefix(Tail(s)) ELSE <<>>

RECURSIVE DecimalValue(_)
DecimalValue(ds) ==
    IF ds = <<>> THEN 0
    ELSE 10 * DecimalValue(SubSeq(ds, 1, Len(ds) - 1)) + DigitValue(ds[Len(ds)])

parseInt(s) ==
    LET t == TrimStart(s)
        signed == t # <<>> /\ t[1] \in {"-", "+"}
        ds == DigitPrefix(IF signed THEN Tail(t) ELSE t)
    IN IF ds = <<>> THEN NaN
       ELSE Num(IF signed /\ t[1] = "-" THEN 0 - DecimalValue(ds)
                 ELSE DecimalValue(ds))

(***************************************************************************)
(* new URL(s), searchParams.append and toString, over the pieces of the    *)
(* model's URLs: a scheme piece, a host piece, then the path up to "?",    *)
(* then the query.  A string that does not start with a scheme and a host  *)
(* is no absolute URL: the constructor throws TypeError "Invalid URL".     *)
(***************************************************************************)
Schemes == {"http://", "https://"}
HostPieces == {"example.com", "1.1.1.1", "1.1.2.3"}
PathStarts == {"/", "/a.jpg", "/bmi/"}

IsAbsoluteURL(s) ==
    /\ Len(s) >= 2
    /\ s[1] \in Schemes
    /\ s[2] \in HostPieces
    /\ Len(s) >= 3 => s[3] \in PathStarts \cup {"?"}

\* The parsed URL; only asked of an absolute URL.
ParseURL(s) ==
    LET q == IndexOf(s, <<"?">>)
        stop == IF q = 0 THEN Len(s) ELSE q - 1
    IN [origin |-> SubSeq(s, 1, 2),
        path   |-> SubSeq(s, 3, stop),
        query  |-> IF q = 0 THEN <<>> ELSE SubSeq(s, q + 1, Len(s))]

\* url.searchParams.append(key, value)
AppendParam(u, key, value) ==
    [u EXCEPT !.query = IF u.query = <<>> THEN <<key, "=", value>>
                        ELSE u.query \o <<"&", key, "=", value>>]

\* url.toString(): an empty path is serialized as "/".
SerializeURL(u) ==
    u.origin \o (IF u.path = <<>> THEN <<"/">> ELSE u.path)
             \o (IF u.query = <<>> THEN <<>> ELSE <<"?">> \o u.query)

RECURSIVE AppendAll(_, _)
\* Object.keys(queryParams).forEach(key => url.searchParams.append(...))
AppendAll(u, params) ==
    IF params = <<>> THEN u
    ELSE AppendAll(AppendParam(u, params[1].key, params[1].value), Tail(params))

\* assembleURL: [throws |-> TRUE] or the serialized URL.
assembleURL(baseURL, queryParams) ==
    IF ~IsAbsoluteURL(baseURL) THEN [throws |-> TRUE, value |-> <<"Invalid URL">>]
    ELSE [throws |-> FALSE,
          value  |-> SerializeURL(AppendAll(ParseURL(baseURL), queryParams))]

(***************************************************************************)
(* JSON.parse of a string literal or of an array of string literals; any   *)
(* other text over the pieces of the model is a SyntaxError.               *)
(***************************************************************************)
Quote == "\""

IsStringLiteral(t) ==
    /\ Len(t) >= 2
    /\ t[1] = Quote
    /\ t[Len(t)] = Quote
    /\ \A i \in 2..(Len(t) - 1) : t[i] # Quote

Unquote(t) == SubSeq(t, 2, Len(t) - 1)

RECURSIVE SplitOn(_, _)
SplitOn(s, sep) ==
    LET i == IndexOf(s, <<sep>>)
    IN IF i = 0 THEN <<s>>
       ELSE <<SubSeq(s, 1, i - 1)>> \o SplitOn(SubSeq(s, i + 1, Len(s)), sep)

JSONParse(text) ==
    LET inner == SubSeq(text, 2, Len(text) - 1)
        items == IF inner = <<>> THEN <<>> ELSE SplitOn(inner, ",")
    IN IF IsStringLiteral(text)
       THEN [ok |-> TRUE, isArray |-> FALSE, string |-> Unquote(text), array |-> <<>>]
       ELSE IF /\ Len(text) >= 2
               /\ text[1] = "["
               /\ text[Len(text)] = "]"
               /\ \A i \in 1..Len(items) : IsStringLiteral(items[i])
       THEN [ok |-> TRUE, isArray |-> TRUE, string |-> <<>>,
             array |-> [i \in 1..Len(items) |-> Unquote(items[i])]]
       ELSE [ok |-> FALSE, isArray |-> FALSE, string |-> <<>>, array |-> <<>>]

\* try { url = JSON.parse(url) } catch {}; if (Array.isArray(url)) url = url.join("&url=")
ParseAndJoin(text) ==
    LET j == JSONParse(text)
    IN IF ~j.ok THEN text
       ELSE IF j.isArray THEN Join(j.array, <<"&url=">>)
       ELSE j.string

\* url.replace(/http:\/\/1\.1\.\d\.\d\/bmi\/(https?:\/\/)?/i, "http://")
StripBmi(s) ==
    LET hits == {i \in 1..(Len(s) - 2) :
                    /\ s[i] = "http://"
                    /\ s[i + 1] \in {"1.1.1.1", "1.1.2.3"}
                    /\ s[i + 2] = "/bmi/"}
        i == CHOOSE k \in hits : \A j \in hits : k <= j
        n == IF Len(s) >= i + 3 /\ s[i + 3] \in Schemes THEN 4 ELSE 3
    IN IF hits = {} THEN s
       ELSE SubSeq(s, 1, i - 1) \o <<"http://">> \o SubSeq(s, i + n, Len(s))

\* Lines 61-76 / 191-208 once assembleURL has returned.
ResolveURL(assembled) == StripBmi(ParseAndJoin(assembled))

(***************************************************************************)
(* Option resolution, lines 78-90 / 210-223.                               *)
(***************************************************************************)
DefaultQuality == 40

\* parseInt(level, 10) || 40: NaN and 0 are falsy.
QualityOf(level) ==
    LET p == parseInt(level)
    IN IF p.nan \/ p.n = 0 THEN DefaultQuality ELSE p.n

ResolveOptions(headers) ==
    LET bw == Get(headers, "x-image-lite-bw")
        level == Get(headers, "x-image-lite-level")
        jpeg == Get(headers, "x-image-lite-jpeg")
    IN IF Truthy(bw) /\ Truthy(level) /\ Truthy(jpeg)
       THEN [useWebp   |-> jpeg.value = <<"0">>,
             grayscale |-> bw.value # <<"0">>,
             quality   |-> QualityOf(level.value)]
       ELSE [useWebp |-> FALSE, grayscale |-> TRUE, quality |-> DefaultQuality]

\* pick(headers, [...]): the allow-listed request headers.
ForwardedNames == {"cookie", "dnt", "referer", "user-agent", "x-forwarded-for"}
pick(headers) == [n \in (DOMAIN headers) \cap ForwardedNames |-> headers[n]]

(***************************************************************************)
(* Buffer.from(data).toString("base64"): three bytes become four letters   *)
(* of the base64 alphabet, a last group of one or two bytes is padded      *)
(* with "=".                                                               *)
(***************************************************************************)
Base64Alphabet ==
    <<"A", "B", "C", "D", "E", "F", "G", "H", "I", "J", "K", "L", "M",
      "N", "O", "P", "Q", "R", "S", "T", "U", "V", "W", "X", "Y", "Z",
      "a", "b", "c", "d", "e", "f", "g", "h", "i", "j", "k", "l", "m",
      "n", "o", "p", "q", "r", "s", "t", "u", "v", "w", "x", "y", "z",
      "0", "1", "2", "3", "4", "5", "6", "7", "8", "9", "+", "/">>

Sextet(i) == Base64Alphabet[i + 1]

RECURSIVE toBase64(_)
toBase64(b) ==
    IF Len(b) = 0 THEN <<>>
    ELSE IF Len(b) = 1
    THEN <<Sextet(b[1] \div 4), Sextet((b[1] % 4) * 16), "=", "=">>
    ELSE IF Len(b) = 2
    THEN <<Sextet(b[1] \div 4), Sextet((b[1] % 4) * 16 + b[2] \div 16),
           Sextet((b[2] % 16) * 4), "=">>
    ELSE <<Sextet(b[1] \div 4), Sextet((b[1] % 4) * 16 + b[2] \div 16),
           Sextet((b[2] % 16) * 4 + b[3] \div 64), Sextet(b[3] % 64)>>
         \o toBase64(SubSeq(b, 4, Len(b)))

(***************************************************************************)
(* Response headers: a mapping from header names to values, both strings.  *)
(* Iterating a Headers object yields the names in lower case, which is how *)
(* the model writes them.                                                  *)
(***************************************************************************)
NoHeaders == [n \in {} |-> <<>>]

\* { ...a, ...b } of two plain objects: b wins on a shared name.
Merge(a, b) ==
    [n \in (DOMAIN a) \cup (DOMAIN b) |-> IF n \in DOMAIN b THEN b[n] ELSE a[n]]

\* { ...headers } of a fetch Headers object: the spread copies the own
\* enumerable properties, and a Headers object keeps its entries in an internal
\* list, not in properties named after the headers: no header is copied.
SpreadHeaders(headers) == NoHeaders

\* .get("content-type") || ""
ContentTypeOf(headers) ==
    IF <<"content-type">> \in DOMAIN headers THEN headers[<<"content-type">>] ELSE <<>>

\* stripMixedContentCSP, line 40
stripMixedContentCSP(CSPHeader) ==
    ReplaceFirst(CSPHeader, <<"block-all-mixed-content">>, <<>>)

\* Lines 25-28: the value of a header whose name matches.
PatchedValue(value, host) ==
    LET hostWithProtocol == <<"https://">> \o host
        a == stripMixedContentCSP(value)
        b == ReplaceFirst(a, <<"img-src">>, <<"img-src", " ">> \o hostWithProtocol)
        c == ReplaceFirst(b, <<"default-src">>, <<"default-src", " ">> \o hostWithProtocol)
    IN ReplaceFirst(c, <<"connect-src">>, <<"connect-src", " ">> \o hostWithProtocol)

\* /content-security-policy/i.test(name), line 24
NameMatches(name) == Contains(name, <<"content-security-policy">>)

\* patchContentSecurity, lines 18-37; host is request.headers.host.
patchContentSecurity(headers, host) ==
    LET h == IF host.present THEN host.value ELSE <<"undefined">>
    IN [name \in DOMAIN headers |->
          IF NameMatches(name) THEN PatchedValue(headers[name], h)
          ELSE headers[name]]

(***************************************************************************)
(* The requests, upstream responses and collaborator results the model     *)
(* draws from.                                                             *)
(***************************************************************************)
Fragment1 == <<"http://", "example.com", "/">>
Fragment2 == <<"http://", "example.com", "/a.jpg">>
JsonArrayUrl ==
    <<"[", Quote>> \o Fragment1 \o <<Quote, ",", Quote>> \o Fragment2 \o <<Quote, "]">>
MangledUrl == <<"http://", "1.1.1.1", "/bmi/", "http://", "example.com", "/a.jpg">>

UrlValues ==
    {Undefined, Str(<<>>), Str(<<"http://", "example.com">>), Str(Fragment2),
     Str(MangledUrl), Str(JsonArrayUrl), Str(<<"example.com", "/a.jpg">>)}

RestValues == {<<>>, <<[key |-> "l", value |-> "60"]>>}

BwValues == {Undefined, Str(<<"0">>), Str(<<"1">>)}
JpegValues == {Undefined, Str(<<"0">>), Str(<<"1">>)}
LevelValues ==
    {Undefined, Str(<<"a", "b", "c">>), Str(<<"0">>), Str(<<"-", "5">>),
     Str(<<"8", "0">>), Str(<<"1", "5", "0">>)}

ProxyHost == <<"proxy.app">>

\* The request headers: host and user-agent, and each x-image-lite header given.
RequestHeaders(bw, level, jpeg) ==
    LET given == {<<"x-image-lite-bw", bw>>, <<"x-image-lite-level", level>>,
                  <<"x-image-lite-jpeg", jpeg>>}
        lite == {g \in given : g[2].present}
        names == {"host", "user-agent"} \cup {g[1] : g \in lite}
    IN [n \in names |->
          IF n = "host" THEN ProxyHost
          ELSE IF n = "user-agent" THEN <<"Mozilla">>
          ELSE (CHOOSE g \in lite : g[1] = n)[2].value]

Requests ==
    {[query |-> [url |-> u, rest |-> r], headers |-> RequestHeaders(bw, lv, jp)] :
        u \in UrlValues, r \in RestValues,
        bw \in BwValues, lv \in LevelValues, jp \in JpegValues}

ByteValues == {0, 255}
Buffers == SeqsUpTo(ByteValues, MaxDataLen)
Outputs == SeqsUpTo({7}, MaxOutputLen)

CspValue ==
    <<"img-src", " ", "'self'", ";", " ", "block-all-mixed-content">>

UpstreamHeaders ==
    {NoHeaders,
     (<<"content-type">> :> <<"image/png">>) @@ (<<"cache-control">> :> <<"no-store">>),
     (<<"content-type">> :> <<"image/jpeg">>)
         @@ (<<"content-security-policy">> :> CspValue)}

OverrideHeaders ==
    {(<<"content-type">> :> <<"image/webp">>) @@ (<<"x-original-size">> :> <<"n">>)}

NotOkStatuses == {404, 503}
\* An error is [message]; its message may be missing.
FetchErrors == {[message |-> Undefined], [message |-> Str(<<"fetch failed">>)]}
CompressErrors == {[message |-> Str(<<"unsupported image format">>)]}

(***************************************************************************)
(* fetchData, lines 148-156, of the response fetch resolved with.          *)
(***************************************************************************)
fetchData(response) ==
    IF ~response.ok
    THEN [statusCode |-> IF response.status # 0 THEN response.status ELSE 302]
    ELSE [data     |-> response.body,
          type     |-> ContentTypeOf(response.headers),
          headers  |-> response.headers,
          response |-> response]

\* compressData, lines 158-177, of what compress resolved with.
compressData(r) ==
    IF r.err.present THEN [throws |-> TRUE, error |-> r.err.value]
    ELSE [throws |-> FALSE, output |-> r.output, compressedHeaders |-> r.headers]

\* A variant of NoUrl that only checks for undefined: "" counts as a URL.
NoUrlUndefinedOnly(query) == ~query.url.present

\* if (!url), lines 57 / 187
NoUrl(query) == ~Truthy(query.url)

\* A variant of PathsTaken with the gate's answer negated the other way.
PathsTakenInverted(shouldCompress) ==
    IF shouldCompress THEN {"bypass"} ELSE {"compress"}

\* A variant of PathsTaken whose bypass branch does not return.
PathsTakenFallThrough(shouldCompress) ==
    IF ~shouldCompress THEN {"bypass", "compress"} ELSE {"compress"}

\* Lines 108-119 / 238-250: the branches run after the gate answered.  The
\* bypass branch returns, so the compression branch runs only without it.
PathsTaken(shouldCompress) == IF ~shouldCompress THEN {"bypass"} ELSE {"compress"}

\* error.message || ""
MessageOf(error) == IF Truthy(error.message) THEN error.message.value ELSE <<>>

Pending == [state |-> "pending"]
Fulfilled(v) == [state |-> "fulfilled", value |-> v]
Rejected(error) == [state |-> "rejected", error |-> error]
NoResponse == [headers |-> NoHeaders, sent |-> <<>>]
NoCalls == [fetch |-> <<>>, gate |-> <<>>, compress |-> <<>>]
Nothing == [none |-> TRUE]

\* response.setHeader for every header, then response.status(code).send(body)
SetAndSend(r, headers, code, body) ==
    [headers |-> Merge(r.headers, headers),
     sent    |-> Append(r.sent, [status |-> code, body |-> body])]

(***************************************************************************)
(* The state machine.  One invocation of one entry point: it starts, waits *)
(* for fetch, and on the compression path waits for compress.              *)
(***************************************************************************)
Init ==
    /\ pc = "idle"
    /\ entry = "none"
    /\ request = Nothing
    /\ url = <<>>
    /\ opts = Nothing
    /\ fetched = Nothing
    /\ gate = Nothing
    /\ compressed = Nothing
    /\ calls = NoCalls
    /\ returned = Pending
    /\ res = NoResponse
    /\ log = <<>>
    /\ thrown = <<>>
    /\ cspIn = Nothing
    /\ cspOut = Nothing

Literal == <<"bandwidth-hero-proxy">>
ByteLengthError ==
    [message |-> Str(<<"Cannot read properties of undefined (reading 'byteLength')">>)]
InvalidUrlError == [message |-> Str(<<"Invalid URL">>)]

\* The catch block, lines 142-145 / 281-284: both entry points return the
\* object; the request/response-style one sends nothing.
Catch(error) ==
    /\ thrown' = Append(thrown, error)
    /\ log' = Append(log, "error")
    /\ returned' = Fulfilled([statusCode |-> 500, body |-> MessageOf(error)])
    /\ pc' = "done"

\* Lines 53-104 / 180-234, up to the await of fetch.
Start(e, req) ==
    /\ pc = "idle"
    /\ entry' = e
    /\ request' = req
    /\ UNCHANGED <<fetched, gate, compressed, log, cspIn, cspOut>>
    /\ thrown' = IF ~NoUrl(req.query)
                    /\ assembleURL(req.query.url.value, req.query.rest).throws
                 THEN Append(thrown, InvalidUrlError)
                 ELSE thrown
    /\ IF NoUrl(req.query)
       THEN /\ pc' = "done"
            /\ returned' = IF e = "event"
                           THEN Fulfilled([statusCode |-> 200, body |-> Literal])
                           ELSE Fulfilled(Nothing)
            /\ res' = IF e = "event" THEN res
                      ELSE SetAndSend(res, NoHeaders, 200,
                                      [kind |-> "string", val |-> Literal])
            /\ UNCHANGED <<url, opts, calls>>
       ELSE LET a == assembleURL(req.query.url.value, req.query.rest)
            IN IF a.throws
               THEN \* thrown before the try block: the promise rejects
                    /\ pc' = "done"
                    /\ returned' = Rejected(InvalidUrlError)
                    /\ UNCHANGED <<url, opts, calls, res>>
               ELSE /\ url' = ResolveURL(a.value)
                    /\ opts' = ResolveOptions(req.headers)
                    /\ calls' = [calls EXCEPT !.fetch =
                                    Append(@, [url     |-> ResolveURL(a.value),
                                               headers |-> pick(req.headers)])]
                    /\ pc' = "fetching"
                    /\ UNCHANGED <<returned, res>>

\* fetchData rejects (a network error in fetch or in reading the body): caught.
FetchRejects(error) ==
    /\ pc = "fetching"
    /\ Catch(error)
    /\ UNCHANGED <<entry, request, url, opts, fetched, gate, compressed,
                   calls, res, cspIn, cspOut>>

\* fetch resolves: lines 101-125 / 234-256, up to the await of compress.
FetchResolves(response, answer) ==
    LET f == fetchData(response)
        host == Get(request.headers, "host")
        paths == PathsTaken(answer)
    IN /\ pc = "fetching"
       /\ fetched' = f
       /\ UNCHANGED <<entry, request, url, opts, compressed, cspIn, cspOut>>
       /\ IF "data" \notin DOMAIN f
          THEN \* data is undefined: data.byteLength throws a TypeError
               /\ Catch(ByteLengthError)
               /\ UNCHANGED <<gate, calls, res>>
          ELSE /\ gate' = [answer |-> answer]
               /\ calls' =
                    [calls EXCEPT
                       !.gate = Append(@, [type |-> f.type, size |-> Len(f.data),
                                           useWebp |-> opts.useWebp]),
                       !.compress =
                          IF "compress" \in paths
                          THEN Append(@, [data         |-> f.data,
                                          useWebp      |-> opts.useWebp,
                                          grayscale    |-> opts.grayscale,
                                          quality      |-> opts.quality,
                                          originalSize |-> Len(f.data)])
                          ELSE @]
               /\ log' = IF "bypass" \in paths THEN Append(log, "Bypassing...")
                         ELSE log
               /\ thrown' = thrown
               /\ returned' =
                    IF "bypass" \notin paths THEN returned
                    ELSE IF entry = "event"
                    THEN Fulfilled([statusCode      |-> 200,
                                    body            |-> toBase64(f.data),
                                    headers         |-> patchContentSecurity(f.headers, host),
                                    isBase64Encoded |-> TRUE])
                    ELSE Fulfilled(Nothing)
               /\ res' =
                    IF "bypass" \in paths /\ entry = "reqres"
                    THEN SetAndSend(res, patchContentSecurity(f.headers, host), 200,
                                    [kind |-> "buffer", val |-> f.data])
                    ELSE res
               /\ pc' = IF "compress" \in paths THEN "compressing" ELSE "done"

\* compress resolves: lines 119-141 / 250-273, through compressData.
CompressResolves(r) ==
    LET c == compressData(r)
        host == Get(request.headers, "host")
    IN /\ pc = "compressing"
       /\ compressed' = r
       /\ UNCHANGED <<entry, request, url, opts, fetched, gate, calls, cspIn, cspOut>>
       /\ IF c.throws
          THEN \* compressData logs and rethrows; the catch block takes it
               /\ log' = Append(Append(log, "Conversion failed"), "error")
               /\ thrown' = Append(thrown, c.error)
               /\ returned' = Fulfilled([statusCode |-> 500, body |-> MessageOf(c.error)])
               /\ pc' = "done"
               /\ res' = res
          ELSE LET final == patchContentSecurity(
                                Merge(SpreadHeaders(fetched.headers), c.compressedHeaders),
                                host)
               IN /\ log' = Append(log, "Saved")
                  /\ thrown' = thrown
                  /\ returned' =
                       IF entry = "event"
                       THEN Fulfilled([statusCode      |-> 200,
                                       body            |-> toBase64(c.output),
                                       isBase64Encoded |-> TRUE,
                                       headers         |-> final])
                       ELSE Fulfilled(Nothing)
                  /\ res' = IF entry = "event" THEN res
                            ELSE SetAndSend(res, final, 200,
                                            [kind |-> "buffer", val |-> c.output])
                  /\ pc' = "done"

Responses ==
    {[ok |-> FALSE, status |-> st, body |-> <<>>, headers |-> NoHeaders] :
        st \in NotOkStatuses}
    \cup {[ok |-> TRUE, status |-> 200, body |-> b, headers |-> h] :
            b \in Buffers, h \in UpstreamHeaders}

CompressResults ==
    {[err |-> Str(e), output |-> <<>>, headers |-> NoHeaders] : e \in CompressErrors}
    \cup {[err |-> Undefined, output |-> o, headers |-> h] :
            o \in Outputs, h \in OverrideHeaders}

Next ==
    \/ \E e \in {"event", "reqres"}, req \in Requests : Start(e, req)
    \/ \E error \in FetchErrors : FetchRejects(error)
    \/ \E response \in Responses, answer \in BOOLEAN : FetchResolves(response, answer)
    \/ \E r \in CompressResults : CompressResolves(r)

Spec == Init /\ [][Next]_vars

(***************************************************************************)
(* patchContentSecurity on its own, over Content-Security-Policy values of *)
(* up to MaxDirectives directives.                                         *)
(***************************************************************************)
CspDirectives ==
    {<<"block-all-mixed-content">>, <<"img-src", " ", "'self'">>,
     <<"img-src", " ", "data:">>, <<"default-src", " ", "'self'">>,
     <<"connect-src", " ", "'self'">>}

CspValues ==
    {Join(ds, <<";", " ">>) : ds \in SeqsUpTo(CspDirectives, MaxDirectives) \ {<<>>}}

CspNames ==
    {<<"content-security-policy">>, <<"content-security-policy", "-report-only">>,
     <<"x-frame-options">>}

CspInputs ==
    {[headers |-> (n :> v) @@ (<<"content-type">> :> <<"text/html">>), host |-> h] :
        n \in CspNames, v \in CspValues, h \in {Str(ProxyHost), Undefined}}

InitCSP ==
    /\ pc = "idle"
    /\ entry = "none"
    /\ request = Nothing
    /\ url = <<>>
    /\ opts = Nothing
    /\ fetched = Nothing
    /\ gate = Nothing
    /\ compressed = Nothing
    /\ calls = NoCalls
    /\ returned = Pending
    /\ res = NoResponse
    /\ log = <<>>
    /\ thrown = <<>>
    /\ cspIn \in CspInputs
    /\ cspOut = Nothing

Patch ==
    /\ cspIn # Nothing
    /\ cspOut = Nothing
    /\ cspOut' = [headers |-> patchContentSecurity(cspIn.headers, cspIn.host)]
    /\ UNCHANGED <<pc, entry, request, url, opts, fetched, gate, compressed,
                   calls, returned, res, log, thrown, cspIn>>

NextCSP == Patch

SpecCSP == InitCSP /\ [][NextCSP]_vars

(***************************************************************************)
(* What the properties speak of.                                           *)
(***************************************************************************)
Done == pc = "done"
FetchSucceeded == "data" \in DOMAIN fetched
FetchNotOk == "statusCode" \in DOMAIN fetched
GateAnswered == "answer" \in DOMAIN gate
CompressSucceeded == "err" \in DOMAIN compressed /\ ~compressed.err.present
BypassRan == "Bypassing..." \in Range(log)
CompressRan == calls.compress # <<>>
\* A failure after fetch was called: of the fetch or of the compressor.
PipelineFailed == thrown # <<>> /\ calls.fetch # <<>>
UrlLacking == request.query.url = Undefined \/ request.query.url = Str(<<>>)

\* Buffer.from(s, "base64"), what the event-style host does with the body.
Base64Index(c) ==
    IF c = "=" THEN 0 ELSE (CHOOSE i \in 1..64 : Base64Alphabet[i] = c) - 1

RECURSIVE fromBase64(_)
fromBase64(s) ==
    IF Len(s) < 4 THEN <<>>
    ELSE LET a == Base64Index(s[1])
             b == Base64Index(s[2])
             c == Base64Index(s[3])
             d == Base64Index(s[4])
             bytes == <<a * 4 + b \div 16, (b % 16) * 16 + c \div 4, (c % 4) * 64 + d>>
             n == IF s[3] = "=" THEN 1 ELSE IF s[4] = "=" THEN 2 ELSE 3
         IN SubSeq(bytes, 1, n) \o fromBase64(SubSeq(s, 5, Len(s)))

\* The event-style result is a 200 whose base64 body decodes to bytes.
EventReturnsBytes(bytes) ==
    /\ returned.state = "fulfilled"
    /\ returned.value.statusCode = 200
    /\ "isBase64Encoded" \in DOMAIN returned.value
    /\ returned.value.isBase64Encoded
    /\ fromBase64(returned.value.body) = bytes

\* The request/response-style handler sent one response: a 200 with bytes.
ResponseSendsBytes(bytes) ==
    /\ Len(res.sent) = 1
    /\ res.sent[1].status = 200
    /\ res.sent[1].body = [kind |-> "buffer", val |-> bytes]

\* The headers the client is given.
FinalHeaders ==
    IF entry = "event"
    THEN IF returned.state = "fulfilled" /\ "headers" \in DOMAIN returned.value
         THEN returned.value.headers ELSE NoHeaders
    ELSE res.headers

(***************************************************************************)
(* C1: when the fetch succeeded and the gate answered false, the response  *)
(* body is the fetched bytes (base64 of them in the event-style result)    *)
(* and compress was never called.                                          *)
(***************************************************************************)
C1_BypassReturnsFetchedBytes ==
    (Done /\ FetchSucceeded /\ GateAnswered /\ ~gate.answer) =>
        /\ calls.compress = <<>>
        /\ entry = "event" => EventReturnsBytes(fetched.data)
        /\ entry = "reqres" => ResponseSendsBytes(fetched.data)

C1_Witness ==
    /\ Done /\ FetchSucceeded /\ GateAnswered /\ ~gate.answer
    /\ entry = "event"
    /\ fetched.data = <<255, 0>>
    /\ returned.value.body = <<"/", "w", "A", "=">>

(***************************************************************************)
(* C2: when the fetch succeeded and the gate answered true, the response   *)
(* body is the compressor's output and the response headers are the        *)
(* upstream headers with the compressor's overrides merged over them.      *)
(***************************************************************************)
C2_CompressedBodyAndMergedHeaders ==
    (Done /\ FetchSucceeded /\ GateAnswered /\ gate.answer /\ CompressSucceeded) =>
        /\ entry = "event" => EventReturnsBytes(compressed.output)
        /\ entry = "reqres" => ResponseSendsBytes(compressed.output)
        /\ \A n \in DOMAIN compressed.headers :
              n \in DOMAIN FinalHeaders /\ FinalHeaders[n] = compressed.headers[n]
        /\ \A n \in (DOMAIN fetched.headers) \ (DOMAIN compressed.headers) :
              n \in DOMAIN FinalHeaders

(***************************************************************************)
(* C3: when the upstream answers with a non-success status, fetchData does *)
(* not throw and the client is given that status with an empty body.       *)
(***************************************************************************)
C3_NonSuccessStatusPassedThrough ==
    (Done /\ FetchNotOk) =>
        /\ entry = "event" =>
              /\ returned.state = "fulfilled"
              /\ returned.value.statusCode = fetched.statusCode
              /\ returned.value.body = <<>>
        /\ entry = "reqres" =>
              /\ Len(res.sent) = 1
              /\ res.sent[1].status = fetched.statusCode
              /\ res.sent[1].body.val = <<>>

(***************************************************************************)
(* C4: in the event-style entry point every failure of an invocation that  *)
(* has a url parameter is caught: the result is a 500 whose body is the    *)
(* failure's message, and the invocation is never rejected.                *)
(***************************************************************************)
C4_EventFailuresCaught ==
    (Done /\ entry = "event" /\ ~UrlLacking /\ thrown # <<>>) =>
        returned = Fulfilled([statusCode |-> 500, body |-> MessageOf(thrown[1])])

(***************************************************************************)
(* C5: in the request/response-style entry point every pipeline failure    *)
(* (of the fetch or of the compressor) ends in status(500).send(message)   *)
(* on the response object: the invocation sends exactly one response.      *)
(***************************************************************************)
C5_ResponseFailuresSent ==
    (Done /\ entry = "reqres" /\ PipelineFailed) =>
        /\ Len(res.sent) = 1
        /\ res.sent[1].status = 500
        /\ res.sent[1].body = [kind |-> "string", val |-> MessageOf(thrown[1])]

(***************************************************************************)
(* C6: a request without url (absent or empty), whatever else it carries,  *)
(* is answered 200 "bandwidth-hero-proxy" with no fetch, gate or compress  *)
(* call, in both entry points.                                             *)
(***************************************************************************)
C6_MissingUrlShortCircuits ==
    (pc # "idle" /\ UrlLacking) =>
        /\ Done
        /\ calls = NoCalls
        /\ thrown = <<>>
        /\ entry = "event" =>
              returned = Fulfilled([statusCode |-> 200, body |-> Literal])
        /\ entry = "reqres" =>
              res.sent = <<[status |-> 200, body |-> [kind |-> "string", val |-> Literal]]>>

C6_Witness ==
    /\ Done /\ UrlLacking
    /\ entry = "reqres"
    /\ request.query.url = Str(<<>>)
    /\ request.query.rest # <<>>
    /\ "x-image-lite-level" \in DOMAIN request.headers
    /\ Len(res.sent) = 1

(***************************************************************************)
(* C7 as stated: exactly one of the bypass path and the compression path   *)
(* runs in every request.                                                  *)
(***************************************************************************)
C7_ExactlyOnePathPerRequest ==
    Done => (BypassRan /\ ~CompressRan) \/ (CompressRan /\ ~BypassRan)

(***************************************************************************)
(* C7 as amended: the two paths never both run in one request; exactly one *)
(* of them runs when fetchData returned data, and neither otherwise.       *)
(***************************************************************************)
C7_AtMostOnePathAndOneAfterFetch ==
    /\ ~(BypassRan /\ CompressRan)
    /\ Done => ((BypassRan \/ CompressRan) <=> FetchSucceeded)

C7_Witness ==
    /\ Done /\ FetchSucceeded /\ CompressRan /\ ~BypassRan
    /\ Len(calls.compress) = 1

(***************************************************************************)
(* C8: a url parameter that is a JSON array of two URL fragments resolves, *)
(* and fetch is given the fragments joined by "&url=".                     *)
(***************************************************************************)
C8_JsonArrayUrlJoined ==
    (pc # "idle" /\ request.query.url = Str(JsonArrayUrl) /\ request.query.rest = <<>>) =>
        /\ thrown = <<>>
        /\ Len(calls.fetch) = 1
        /\ calls.fetch[1].url = Fragment1 \o <<"&url=">> \o Fragment2

(***************************************************************************)
(* C9: a Content-Security-Policy value holding block-all-mixed-content and *)
(* img-src 'self' comes out of patchContentSecurity without                *)
(* block-all-mixed-content and with img-src https://<host> 'self'; every   *)
(* header of another name keeps its value.                                 *)
(***************************************************************************)
C9_PatchStripsAndInserts ==
    cspOut # Nothing =>
        \A name \in DOMAIN cspIn.headers :
            LET before == cspIn.headers[name]
                after == cspOut.headers[name]
                host == IF cspIn.host.present THEN cspIn.host.value ELSE <<"undefined">>
            IN IF name = <<"content-security-policy">>
               THEN (/\ Contains(before, <<"block-all-mixed-content">>)
                     /\ Contains(before, <<"img-src", " ", "'self'">>)) =>
                       /\ ~Contains(after, <<"block-all-mixed-content">>)
                       /\ Contains(after, <<"img-src", " ", "https://">> \o host
                                              \o <<" ", "'self'">>)
               ELSE after = before

(***************************************************************************)
(* C10: the quality given to compress is an integer from 1 to 100, and is  *)
(* 40 when x-image-lite-level is absent or is not a number.                *)
(***************************************************************************)
C10_QualityInRange ==
    \A i \in 1..Len(calls.compress) :
        LET level == Get(request.headers, "x-image-lite-level")
        IN /\ calls.compress[i].quality \in 1..100
           /\ (~level.present \/ parseInt(level.value).nan) =>
                 calls.compress[i].quality = DefaultQuality

==========================================================================
